---------------------------- MODULE Spec2Model ----------------------------
(***************************************************************************)
(* State-machine model of tools/cabana/videowidget.{h,cc}: VideoWidget,    *)
(* its Slider (a QSlider) and the two InfoLabels (the alert overlay and    *)
(* the thumbnail preview), driven by the stream object `can`.              *)
(*                                                                         *)
(* Representation of numbers.  A C++ `double` is an IEEE-754 binary64      *)
(* value, held exactly as sign, odd significand and binary exponent; its   *)
(* +, -, *, / round to nearest, ties to even, as the hardware does.        *)
(* (Subnormal results and overflow to infinity lie far outside the times   *)
(* the widget handles and are not modelled.)  A uint64_t mono_time or      *)
(* timestamp is a natural number of nanoseconds, held as a wide natural.   *)
(* Slider values are C++ `int` milliseconds.  A double is written as a     *)
(* decimal literal: Dec(49, 10) is the double the literal 4.9 denotes.     *)
(* A conversion of a double to an integer type truncates; out of the       *)
(* type's range it is undefined behaviour, modelled as the set of results  *)
(* builds produce, so the operators built on conversions are set-valued.   *)
(***************************************************************************)
EXTENDS Integers, Sequences, FiniteSets, TLC

\* ------------------------------------------------------------------ wide naturals

\* a natural number wider than an int: its digits in base 2^15, least significant
\* first, without leading zero digits (zero is the empty sequence)
LimbBits == 15

Base == 2 ^ LimbBits

RECURSIVE BNorm(_)
BNorm(a) ==
  IF a = << >> THEN a
  ELSE IF a[Len(a)] = 0 THEN BNorm(SubSeq(a, 1, Len(a) - 1)) ELSE a

RECURSIVE BFromInt(_)
BFromInt(n) == IF n = 0 THEN << >> ELSE << n % Base >> \o BFromInt(n \div Base)

RECURSIVE BToInt(_)
BToInt(a) == IF a = << >> THEN 0 ELSE a[1] + Base * BToInt(Tail(a))

Limb(a, i) == IF i <= Len(a) THEN a[i] ELSE 0

RECURSIVE BAddFrom(_, _, _, _)
BAddFrom(a, b, i, c) ==
  IF i > Len(a) /\ i > Len(b) THEN (IF c = 0 THEN << >> ELSE << c >>)
  ELSE LET s == Limb(a, i) + Limb(b, i) + c
       IN  << s % Base >> \o BAddFrom(a, b, i + 1, s \div Base)

BAdd(a, b) == BAddFrom(a, b, 1, 0)

RECURSIVE BSubFrom(_, _, _, _)
BSubFrom(a, b, i, borrow) ==
  IF i > Len(a) THEN << >>
  ELSE LET d == a[i] - Limb(b, i) - borrow
       IN  << IF d < 0 THEN d + Base ELSE d >>
             \o BSubFrom(a, b, i + 1, IF d < 0 THEN 1 ELSE 0)

\* a - b for a >= b
BSub(a, b) == BNorm(BSubFrom(a, b, 1, 0))

RECURSIVE BCmpAt(_, _, _)
BCmpAt(a, b, i) ==
  IF i = 0 THEN 0
  ELSE IF a[i] < b[i] THEN -1
  ELSE IF a[i] > b[i] THEN 1
  ELSE BCmpAt(a, b, i - 1)

\* -1, 0, 1 as a < b, a = b, a > b
BCmp(a, b) ==
  IF Len(a) < Len(b) THEN -1 ELSE IF Len(a) > Len(b) THEN 1 ELSE BCmpAt(a, b, Len(a))

RECURSIVE BMulFrom(_, _, _, _)
BMulFrom(a, k, i, c) ==
  IF i > Len(a) THEN (IF c = 0 THEN << >> ELSE << c >>)
  ELSE LET p == a[i] * k + c
       IN  << p % Base >> \o BMulFrom(a, k, i + 1, p \div Base)

\* a * k for 0 <= k <= Base
BMulSmall(a, k) == IF k = 0 THEN << >> ELSE BMulFrom(a, k, 1, 0)

\* a * Base^n
BShiftLimbs(a, n) == IF a = << >> THEN a ELSE [i \in 1 .. n |-> 0] \o a

RECURSIVE BMul(_, _)
BMul(a, b) ==
  IF a = << >> \/ b = << >> THEN << >>
  ELSE BAdd(BMulSmall(a, b[1]), BShiftLimbs(BMul(a, Tail(b)), 1))

RECURSIVE BDivAt(_, _, _, _)
BDivAt(a, d, i, r) ==
  IF i = 0 THEN [q |-> << >>, r |-> r]
  ELSE LET cur == r * Base + a[i]
           rest == BDivAt(a, d, i - 1, cur % d)
       IN  [q |-> rest.q \o << cur \div d >>, r |-> rest.r]

\* quotient and remainder of a by d, 0 < d <= Base
BDivSmall(a, d) ==
  LET x == BDivAt(a, d, Len(a), 0) IN [q |-> BNorm(x.q), r |-> x.r]

\* a * 2^n
BShl(a, n) == BShiftLimbs(BMulSmall(a, 2 ^ (n % LimbBits)), n \div LimbBits)

\* floor(a / 2^n)
BShr(a, n) ==
  IF n \div LimbBits >= Len(a) THEN << >>
  ELSE BDivSmall(SubSeq(a, n \div LimbBits + 1, Len(a)), 2 ^ (n % LimbBits)).q

\* number of binary digits of a
BitLen(a) ==
  IF a = << >> THEN 0
  ELSE LimbBits * (Len(a) - 1)
         + (CHOOSE k \in 1 .. LimbBits : 2 ^ (k - 1) <= a[Len(a)] /\ a[Len(a)] < 2 ^ k)

\* number of trailing zero binary digits of a # 0
TrailingZeros(a) ==
  LET i == CHOOSE j \in 1 .. Len(a) : a[j] # 0 /\ \A k \in 1 .. j - 1 : a[k] = 0
  IN  LimbBits * (i - 1)
        + (CHOOSE k \in 0 .. LimbBits - 1 : a[i] % 2 ^ k = 0 /\ a[i] % 2 ^ (k + 1) # 0)

BIsOdd(a) == a # << >> /\ a[1] % 2 = 1

RECURSIVE BDigit(_, _, _, _)
\* the largest k in lo .. hi with d * k <= r
BDigit(r, d, lo, hi) ==
  IF lo = hi THEN lo
  ELSE LET mid == (lo + hi + 1) \div 2
       IN  IF BCmp(BMulSmall(d, mid), r) <= 0 THEN BDigit(r, d, mid, hi)
           ELSE BDigit(r, d, lo, mid - 1)

RECURSIVE BDivLimbs(_, _, _, _)
\* long division of the digits a[i], ..., a[1] by d with the remainder r carried in
BDivLimbs(a, d, i, r) ==
  IF i = 0 THEN [q |-> << >>, r |-> r]
  ELSE LET cur == BNorm(<< a[i] >> \o r)
           k == BDigit(cur, d, 0, Base - 1)
           rest == BDivLimbs(a, d, i - 1, BSub(cur, BMulSmall(d, k)))
       IN  [q |-> rest.q \o << k >>, r |-> rest.r]

\* quotient and remainder of a by d # 0
BDivMod(a, d) ==
  IF Len(d) = 1 THEN LET x == BDivSmall(a, d[1]) IN [q |-> x.q, r |-> BFromInt(x.r)]
  ELSE LET x == BDivLimbs(a, d, Len(a), << >>) IN [q |-> BNorm(x.q), r |-> x.r]

\* ------------------------------------------------------------------ IEEE-754 double

\* binary digits of a double's significand
Precision == 53

\* a finite double is (-1)^neg * m * 2^e with m odd and below 2^53 (zero: m = 0, e = 0)
Num(neg, m, e) == [cls |-> "num", neg |-> neg, m |-> m, e |-> e]

Zero == Num(FALSE, << >>, 0)

NaN == [cls |-> "nan", neg |-> FALSE, m |-> << >>, e |-> 0]

Inf(neg) == [cls |-> "inf", neg |-> neg, m |-> << >>, e |-> 0]

IsZero(a) == a.cls = "num" /\ a.m = << >>

\* the double m * 2^e for m below 2^53
Canon(neg, m, e) ==
  IF m = << >> THEN Zero
  ELSE LET tz == TrailingZeros(m) IN Num(neg, BShr(m, tz), e + tz)

\* the double nearest to n * 2^e (plus a fraction of 2^e when sticky), ties to even
Round(neg, n, e, sticky) ==
  IF BitLen(n) <= Precision THEN Canon(neg, n, e)
  ELSE LET sh == BitLen(n) - Precision
           q == BShr(n, sh)
           c == BCmp(BSub(n, BShl(q, sh)), BShl(<< 1 >>, sh - 1))
           up == c > 0 \/ (c = 0 /\ (sticky \/ BIsOdd(q)))
       IN  Canon(neg, IF up THEN BAdd(q, << 1 >>) ELSE q, e + sh)

\* (double)n for an int n
FromInt(n) == IF n < 0 THEN Canon(TRUE, BFromInt(-n), 0) ELSE Canon(FALSE, BFromInt(n), 0)

\* (double)n for a uint64_t n
FromUint(n) == Round(FALSE, n, 0, FALSE)

FNeg(a) == IF a.cls = "nan" \/ IsZero(a) THEN a ELSE [a EXCEPT !.neg = ~a.neg]

\* -1, 0, 1 as |a| < |b|, |a| = |b|, |a| > |b| (finite a, b)
CmpMag(a, b) ==
  IF a.m = << >> \/ b.m = << >>
    THEN (IF a.m = b.m THEN 0 ELSE IF a.m = << >> THEN -1 ELSE 1)
  ELSE LET ta == BitLen(a.m) + a.e
           tb == BitLen(b.m) + b.e
           lo == IF a.e < b.e THEN a.e ELSE b.e
       IN  IF ta < tb THEN -1 ELSE IF ta > tb THEN 1
           ELSE BCmp(BShl(a.m, a.e - lo), BShl(b.m, b.e - lo))

\* a < b
FLess(a, b) ==
  IF a.cls = "nan" \/ b.cls = "nan" THEN FALSE
  ELSE IF a.cls = "inf" THEN a.neg /\ ~(b.cls = "inf" /\ b.neg)
  ELSE IF b.cls = "inf" THEN ~b.neg
  ELSE IF a.neg # b.neg THEN a.neg
  ELSE IF a.neg THEN CmpMag(a, b) > 0 ELSE CmpMag(a, b) < 0

\* a + b
FAdd(a, b) ==
  IF a.cls = "nan" \/ b.cls = "nan" THEN NaN
  ELSE IF a.cls = "inf" THEN (IF b.cls = "inf" /\ a.neg # b.neg THEN NaN ELSE a)
  ELSE IF b.cls = "inf" THEN b
  ELSE IF IsZero(a) THEN b
  ELSE IF IsZero(b) THEN a
  ELSE IF BitLen(a.m) + a.e > BitLen(b.m) + b.e + Precision + 2 THEN a
  ELSE IF BitLen(b.m) + b.e > BitLen(a.m) + a.e + Precision + 2 THEN b
  ELSE LET lo == IF a.e < b.e THEN a.e ELSE b.e
           x == BShl(a.m, a.e - lo)
           y == BShl(b.m, b.e - lo)
           c == BCmp(x, y)
       IN  IF a.neg = b.neg THEN Round(a.neg, BAdd(x, y), lo, FALSE)
           ELSE IF c = 0 THEN Zero
           ELSE IF c > 0 THEN Round(a.neg, BSub(x, y), lo, FALSE)
           ELSE Round(b.neg, BSub(y, x), lo, FALSE)

\* a - b
FSub(a, b) == FAdd(a, FNeg(b))

\* a * b
FMul(a, b) ==
  IF a.cls = "nan" \/ b.cls = "nan" THEN NaN
  ELSE IF a.cls = "inf" \/ b.cls = "inf"
    THEN (IF IsZero(a) \/ IsZero(b) THEN NaN ELSE Inf(a.neg # b.neg))
  ELSE IF IsZero(a) \/ IsZero(b) THEN Zero
  ELSE Round(a.neg # b.neg, BMul(a.m, b.m), a.e + b.e, FALSE)

\* a / b
FDiv(a, b) ==
  IF a.cls = "nan" \/ b.cls = "nan" THEN NaN
  ELSE IF a.cls = "inf" THEN (IF b.cls = "inf" THEN NaN ELSE Inf(a.neg # b.neg))
  ELSE IF b.cls = "inf" THEN Zero
  ELSE IF IsZero(b) THEN (IF IsZero(a) THEN NaN ELSE Inf(a.neg # b.neg))
  ELSE IF IsZero(a) THEN Zero
  ELSE LET want == Precision + 3 + BitLen(b.m) - BitLen(a.m)
           s == IF want > 0 THEN want ELSE 0
           x == BDivMod(BShl(a.m, s), b.m)
       IN  Round(a.neg # b.neg, x.q, a.e - b.e - s, x.r # << >>)

\* the whole part of |a| (finite a), as a wide natural
TruncMag(a) ==
  IF a.m = << >> THEN << >>
  ELSE IF a.e >= 0 THEN BShl(a.m, a.e)
  ELSE BShr(a.m, -a.e)

\* ------------------------------------------------------------------ conversions

\* INT_MAX and INT_MIN of the 32-bit `int`
Int32Max == 2147483647

Int32Min == -Int32Max - 1

\* a is finite and |a| < 2^n
FitsBits(a, n) == a.cls = "num" /\ (a.m = << >> \/ BitLen(a.m) + a.e <= n)

\* a truncated toward zero, for |a| < 2^31
WholePart(a) == IF a.neg THEN -BToInt(TruncMag(a)) ELSE BToInt(TruncMag(a))

\* the results of converting the double d to int: d truncated toward zero when that is
\* an int; otherwise (undefined behaviour) INT_MIN, as cvttsd2si gives, or the
\* saturated value, as fcvtzs gives (0 for a NaN)
DoubleToInt(d) ==
  IF FitsBits(d, 31) THEN { WholePart(d) }
  ELSE IF FitsBits(d, 32) /\ d.neg /\ TruncMag(d) = BShl(<< 1 >>, 31) THEN { Int32Min }
  ELSE { Int32Min, IF d.cls = "nan" THEN 0 ELSE IF d.neg THEN Int32Min ELSE Int32Max }

\* the results of converting the double d to uint64_t: d truncated toward zero when
\* that is a uint64_t; otherwise (undefined behaviour) the value wrapped modulo 2^64
\* or saturated, or 2^63 for what no instruction converts
DoubleToUint64(d) ==
  IF FitsBits(d, 64) /\ (~d.neg \/ TruncMag(d) = << >>) THEN { TruncMag(d) }
  ELSE IF FitsBits(d, 63) THEN { BSub(BShl(<< 1 >>, 64), TruncMag(d)), << >> }
  ELSE { << >>, BShl(<< 1 >>, 63), BSub(BShl(<< 1 >>, 64), << 1 >>) }

\* a <= b
FLessEq(a, b) == FLess(a, b) \/ (a.cls # "nan" /\ b.cls # "nan" /\ a = b)

\* std::max(a, b): (a < b) ? b : a
FMax(a, b) == IF FLess(a, b) THEN b ELSE a

\* std::min(a, b): (b < a) ? b : a
FMin(a, b) == IF FLess(b, a) THEN b ELSE a

\* the double of the whole number n
Secs(n) == FromInt(n)

\* the double of the decimal literal n / d (d a power of ten)
Dec(n, d) == FDiv(FromInt(n), FromInt(d))

\* the uint64_t s * 10^9 + n: s seconds and n nanoseconds
Ns(s, n) == BAdd(BMul(BFromInt(s), BFromInt(1000000000)), BFromInt(n))

\* ------------------------------------------------------------------ numbers

\* const double factor = 1000.0 (slider units per second)
factor == FromInt(1000)

\* the literal 1e9 (nanoseconds per second)
NsPerSec == FromInt(1000000000)

\* the literal 1e8 (the alert window, 100 ms in nanoseconds)
AlertWindow == FromInt(100000000)

\* QAbstractSlider's default pageStep, used by QSlider::mousePressEvent
PageStep == 10

\* C++ integer division truncates toward zero
TruncDiv(a, b) == IF a >= 0 THEN a \div b ELSE (a + b - 1) \div b

Clamp(v, lo, hi) == IF v < lo THEN lo ELSE IF v > hi THEN hi ELSE v

\* the least of a non-empty set of uint64_t
MinOf(S) == CHOOSE m \in S : \A k \in S : BCmp(m, k) <= 0

\* an empty text
NoText == -1

\* utils::formatSeconds(sec): the "mm:ss" text of the whole seconds of sec,
\* represented by that number of whole seconds
FormatSeconds(sec) == IF FitsBits(sec, 31) THEN WholePart(sec) ELSE NoText

\* ------------------------------------------------------------------ bounds

\* longest queue of undelivered (Qt::QueuedConnection) updateMaximumTime signals
MaxPending == 1

\* ------------------------------------------------------------------ inputs

\* can->routeStartTime()
routeStartTime == Secs(100)

\* can->totalSeconds() at construction
TotalSecondsInputs == {Secs(60)}

\* values can->currentSec() takes when the `updated` signal is handled
CurrentSecInputs == {Dec(49, 10), Dec(804, 100), Secs(30)}

\* (min, max, is_zoomed) arguments of VideoWidget::updateTimeRange
TimeRangeInputs ==
  { <<Dec(42003, 10000), Dec(157009, 10000), TRUE>>,
    <<Secs(5), Secs(5), TRUE>>,
    <<Secs(5), Dec(50003, 10000), TRUE>>,
    <<Secs(3), Secs(9), FALSE>> }

\* widget width() in pixels
WidthInputs == {200}

\* e->x() of mouse events (may lie outside the widget while the mouse is grabbed)
XInputs == {-5, 1, 17, 230}

\* ------------------------------------------------------------------ log events

\* struct AlertInfo {status, text1, text2}
AlertInfo(status, text1, text2) == [status |-> status, text1 |-> text1, text2 |-> text2]

\* AlertInfo{}: value-initialised (status 0 = NORMAL, empty strings)
EmptyAlert == AlertInfo("NORMAL", "", "")

\* a null QPixmap
NullPixmap == "null"

\* a cereal CONTROLS_STATE event
CsEvent(t, type, t1, t2, size, status) ==
  [which |-> "CONTROLS_STATE", mono_time |-> t, alertType |-> type, alertText1 |-> t1,
   alertText2 |-> t2, alertSize |-> size, alertStatus |-> status,
   timestampEof |-> << >>, jpeg |-> NullPixmap]

\* a cereal THUMBNAIL event; jpeg is the pixmap loadFromData yields (null: it fails)
ThumbEvent(t, ts, pm) ==
  [which |-> "THUMBNAIL", mono_time |-> t, alertType |-> "", alertText1 |-> "",
   alertText2 |-> "", alertSize |-> "NONE", alertStatus |-> "NORMAL",
   timestampEof |-> ts, jpeg |-> pm]

\* any other event
OtherEvent(t) ==
  [which |-> "OTHER", mono_time |-> t, alertType |-> "", alertText1 |-> "",
   alertText2 |-> "", alertSize |-> "NONE", alertStatus |-> "NORMAL",
   timestampEof |-> << >>, jpeg |-> NullPixmap]

\* qlog of segment 0
QLogA ==
  << ThumbEvent(Ns(101, 0), Ns(105, 100000000), "pmA"),
     CsEvent(Ns(105, 0), "brake/permanent", "Brake!", "now", "MID", "CRITICAL"),
     CsEvent(Ns(108, 140000000), "steer/warning", "Steer", "", "SMALL", "USER_PROMPT"),
     CsEvent(Ns(110, 0), "none/permanent", "", "", "SMALL", "NORMAL"),
     CsEvent(Ns(112, 0), "", "NoType", "", "SMALL", "NORMAL"),
     CsEvent(Ns(115, 0), "size/permanent", "NoSize", "", "NONE", "NORMAL"),
     ThumbEvent(Ns(116, 0), Ns(116, 0), NullPixmap),
     OtherEvent(Ns(159, 0)) >>

\* qlog of the last segment; two events share a mono_time, one repeats QLogA's
QLogB ==
  << CsEvent(Ns(130, 0), "takeover/warning", "Take over", "", "FULL", "USER_PROMPT"),
     CsEvent(Ns(130, 0), "takeover/warning", "Take over 2", "", "FULL", "USER_PROMPT"),
     CsEvent(Ns(105, 0), "dup/permanent", "Dup", "", "SMALL", "NORMAL"),
     ThumbEvent(Ns(117, 0), Ns(108, 571428571), "pmB"),
     OtherEvent(Ns(161, 500000000)) >>

\* qlog of the last segment whose last event carries the route's start time
QLogC == << OtherEvent(Ns(100, 0)) >>

\* (segnum, qlog) arguments of the qLogLoaded signal
ParseInputs == { <<0, QLogA>>, <<1, QLogB>>, <<1, QLogC>>, <<1, << >> >> }

\* route()->segments(): segment numbers of the route
Segments == {0, 1}

\* segments.rbegin()->first
LastSegment == CHOOSE n \in Segments : \A k \in Segments : k <= n

\* ------------------------------------------------------------------ Slider (pure parts)

\* uint64_t mono_time = (seconds + can->routeStartTime()) * 1e9
MonoTime(seconds) == DoubleToUint64(FMul(FAdd(seconds, routeStartTime), NsPerSec))

\* std::map::lower_bound / QMap::lowerBound: the keys not below k
KeysFrom(m, k) == {x \in DOMAIN m : BCmp(x, k) >= 0}

\* alertInfo with the window test `< 1e8` in place of `<= 1e8`
alertInfoOfStrict(al, seconds) ==
  { LET from == KeysFrom(al, mono_time)
        has_alert == (from # {})
                       /\ FLess(FromUint(BSub(MinOf(from), mono_time)), AlertWindow)
    IN  IF has_alert THEN al[MinOf(from)] ELSE EmptyAlert : mono_time \in MonoTime(seconds) }

\* Slider::alertInfo against the map `al`
alertInfoOf(al, seconds) ==
  { LET from == KeysFrom(al, mono_time)
        has_alert == (from # {})
                       /\ FLessEq(FromUint(BSub(MinOf(from), mono_time)), AlertWindow)
    IN  IF has_alert THEN al[MinOf(from)] ELSE EmptyAlert : mono_time \in MonoTime(seconds) }

\* thumbnail with upperBound in place of lowerBound
thumbnailOfAfter(th, seconds) ==
  { LET from == {x \in DOMAIN th : BCmp(x, mono_time) > 0}
    IN  IF from # {} THEN th[MinOf(from)] ELSE NullPixmap : mono_time \in MonoTime(seconds) }

\* Slider::thumbnail against the map `th`
thumbnailOf(th, seconds) ==
  { LET from == KeysFrom(th, mono_time)
    IN  IF from # {} THEN th[MinOf(from)] ELSE NullPixmap : mono_time \in MonoTime(seconds) }

\* the ints `sec * factor` converts to
SecTimesFactor(sec) == DoubleToInt(FMul(sec, factor))

\* QAbstractSlider::setValue: the value is bounded into [minimum, maximum]
QSetValue(s, v) == [s EXCEPT !.value = Clamp(v, s.minimum, s.maximum)]

\* QAbstractSlider::setRange: maximum = qMax(min, max), then the value is re-bounded
QSetRange(s, mn, mx) ==
  QSetValue([s EXCEPT !.minimum = mn, !.maximum = IF mx > mn THEN mx ELSE mn], s.value)

\* currentSecond with an integer division: whole seconds only
currentSecondWhole(s) == FromInt(TruncDiv(s.value, 1000))

\* Slider::currentSecond: value() / factor
currentSecond(s) == FDiv(FromInt(s.value), factor)

\* Slider::setCurrentSecond: setValue(sec * factor)
setCurrentSecond(s, sec) == { QSetValue(s, v) : v \in SecTimesFactor(sec) }

\* Slider::setTimeRange past its assertion: setRange(min * factor, max * factor)
setTimeRange(s, min, max) ==
  { QSetRange(s, mn, mx) : mn \in SecTimesFactor(min), mx \in SecTimesFactor(max) }

\* ------------------------------------------------------------------ InfoLabel

\* InfoLabel::InfoLabel: hidden, null pixmap, empty text, empty alert
NewInfoLabel == [visible |-> FALSE, pixmap |-> NullPixmap, second |-> NoText,
                 alert_info |-> EmptyAlert]

\* showAlert that shows the label for an alert but never hides it
showAlertSticky(l, alert) ==
  [l EXCEPT !.alert_info = alert, !.pixmap = NullPixmap,
            !.visible = (l.visible \/ alert.text1 # "")]

\* InfoLabel::showAlert
showAlert(l, alert) ==
  [l EXCEPT !.alert_info = alert, !.pixmap = NullPixmap, !.visible = (alert.text1 # "")]

\* InfoLabel::showPixmap
showPixmap(l, sec, pm, alert) ==
  [l EXCEPT !.second = sec, !.pixmap = pm, !.alert_info = alert, !.visible = TRUE]

\* QWidget::hide on an InfoLabel
hideLabel(l) == [l EXCEPT !.visible = FALSE]

\* ------------------------------------------------------------------ Slider::parseQLog (pure parts)

\* the CONTROLS_STATE events parseQLog stores an alert for
storesAlert(e) ==
  /\ e.which = "CONTROLS_STATE"
  /\ e.alertType # ""
  /\ e.alertText1 # ""
  /\ e.alertSize # "NONE"

\* the THUMBNAIL events parseQLog stores a pixmap for (loadFromData succeeded)
storesThumbnail(e) == e.which = "THUMBNAIL" /\ e.jpeg # NullPixmap

EventsOf(qlog) == {qlog[i] : i \in DOMAIN qlog}

\* alerts.emplace over the events in the order blockingMap happens to run them:
\* a key already present keeps its alert, a new key gets one of its events' alerts
alertsAfter(al, qlog) ==
  LET stored == {e \in EventsOf(qlog) : storesAlert(e)}
      fresh == {e.mono_time : e \in stored} \ DOMAIN al
      infoOf(e) == AlertInfo(e.alertStatus, e.alertText1, e.alertText2)
      cand(k) == {infoOf(e) : e \in {x \in stored : x.mono_time = k}}
      picks == {f \in [fresh -> {infoOf(e) : e \in stored}] : \A k \in fresh : f[k] \in cand(k)}
  IN  {[k \in DOMAIN al \cup fresh |-> IF k \in DOMAIN al THEN al[k] ELSE f[k]] : f \in picks}

\* thumbnails[ts] = scaled over the events in any order: the last writer of a key wins
thumbnailsAfter(th, qlog) ==
  LET stored == {e \in EventsOf(qlog) : storesThumbnail(e)}
      written == {e.timestampEof : e \in stored}
      cand(k) == {e.jpeg : e \in {x \in stored : x.timestampEof = k}}
      picks == {f \in [written -> {e.jpeg : e \in stored}] : \A k \in written : f[k] \in cand(k)}
  IN  {[k \in DOMAIN th \cup written |-> IF k \in written THEN f[k] ELSE th[k]] : f \in picks}

\* the argument of emit updateMaximumTime, or none: the last segment's non-empty qlog
\* gives qlog->events.back()->mono_time / 1e9 - can->routeStartTime()
maximumTimeSignals(segnum, qlog) ==
  IF Cardinality(Segments) > 0 /\ segnum = LastSegment /\ Len(qlog) > 0
    THEN << FSub(FDiv(FromUint(qlog[Len(qlog)].mono_time), NsPerSec), routeStartTime) >>
    ELSE << >>

\* ------------------------------------------------------------------ Slider mouse arithmetic

\* a * x overflows a 32-bit signed int (a >= 0, x >= 0)
MulOverflows(a, x) == x > 0 /\ a > Int32Max \div x

\* a * x reduced modulo 2^32 into the signed range, computed in 16-bit limbs
\* (0 <= a <= Int32Max, 0 <= x < 32768)
WrapMul32(a, x) ==
  LET lo == (a % 65536) * x
      hi == ((a \div 65536) * x + lo \div 65536) % 65536
  IN  (IF hi >= 32768 THEN hi - 65536 ELSE hi) * 65536 + (lo % 65536)

\* floor(a * x / w) without forming a * x (0 <= x <= w)
ExactMulDiv(a, x, w) == (a \div w) * x + ((a % w) * x) \div w

\* the values `minimum() + ((maximum() - minimum()) * e->x()) / width()` can take: the
\* quotient of the int product; a product past INT_MAX is signed overflow, after which
\* a build yields the wrapped product's quotient or the quotient of the wide product
clickValues(s, x, w) ==
  LET range == s.maximum - s.minimum
  IN  IF MulOverflows(range, x)
        THEN { s.minimum + TruncDiv(WrapMul32(range, x), w),
               s.minimum + ExactMulDiv(range, x, w) }
        ELSE { s.minimum + TruncDiv(range * x, w) }

\* seconds = (minimum() + pos * ((maximum() - minimum()) / (double)width())) / factor
hoverSeconds(s, pos, w) ==
  FDiv(FAdd(FromInt(s.minimum),
            FMul(FromInt(pos), FDiv(FromInt(s.maximum - s.minimum), FromInt(w)))),
       factor)

\* ------------------------------------------------------------------ state

VARIABLES
  live,             \* can->liveStreaming()
  isPaused,         \* can->isPaused()
  currentSec,       \* can->currentSec()
  totalSeconds,     \* can->totalSeconds()
  play_btn,         \* play_btn's icon and tool tip
  skip_enabled,     \* skip_to_end_btn->isEnabled() (live stream only)
  maximum_time,     \* VideoWidget::maximum_time
  end_time_label,   \* end_time_label's text
  time_label,       \* time_label's text
  slider,           \* the Slider's QSlider state: minimum, maximum, value, isSliderDown
  width,            \* the Slider's width()
  alerts,           \* Slider::alerts
  thumbnails,       \* Slider::thumbnails
  alert_label,      \* VideoWidget::alert_label (the alert overlay)
  thumbnail_label,  \* Slider::thumbnail_label (the hover preview)
  pending,          \* queued updateMaximumTime signals not yet delivered
  aborted,          \* an assert has failed and ended the process
  timeline,         \* can->getTimeline()
  painted,          \* what the last Slider::paintEvent drew
  last              \* the event handled last and what its handler did

vars == <<live, isPaused, currentSec, totalSeconds, play_btn, skip_enabled, maximum_time,
          end_time_label, time_label, slider, width, alerts, thumbnails, alert_label,
          thumbnail_label, pending, aborted, timeline, painted, last>>

\* a call the widget makes on the stream `can`
Call(fn, arg) == [fn |-> fn, arg |-> arg]

\* no `value` was computed by Slider::mousePressEvent
NoValue == -1

\* no `seconds` was computed by Slider::mouseMoveEvent
NoSeconds == NaN

\* what a handler did: the calls it made on `can`, how often it emitted sliderReleased,
\* the `value` Slider::mousePressEvent computed, the arguments Slider::setTimeRange got
Handled(ev, calls, released, computed, ranges) ==
  [ev |-> ev, calls |-> calls, released |-> released, computed |-> computed,
   ranges |-> ranges, x |-> NoValue, seconds |-> NoSeconds]

\* what the handler of a mouse event at e->x() = x did; seconds is the hovered time
\* Slider::mouseMoveEvent computed
HandledMouse(ev, calls, released, computed, x, seconds) ==
  [ev |-> ev, calls |-> calls, released |-> released, computed |-> computed,
   ranges |-> << >>, x |-> x, seconds |-> seconds]

\* can->pause(b)
PauseCall(b) == Call("pause", IF b THEN 1 ELSE 0)

\* updatePlayBtnState with the two icons swapped
updatePlayBtnStateSwapped(paused) ==
  [icon |-> IF paused THEN "pause" ELSE "play",
   toolTip |-> IF paused THEN "Play" ELSE "Pause"]

\* VideoWidget::updatePlayBtnState
updatePlayBtnState(paused) ==
  [icon |-> IF paused THEN "play" ELSE "pause",
   toolTip |-> IF paused THEN "Play" ELSE "Pause"]

\* the valueChanged slot: time_label->setText(formatSeconds(slider->currentSecond()))
timeLabelAfter(changed, s) ==
  IF changed THEN FormatSeconds(currentSecond(s)) ELSE time_label

\* a new QSlider: range [0, 99], value 0, not pressed
NewSlider == [minimum |-> 0, maximum |-> 99, value |-> 0, down |-> FALSE]

\* no timeline bar painted yet
NotPainted == [bar |-> << >>, spans |-> << >>]

\* the widget after VideoWidget::VideoWidget, for a replay stream (createCameraWidget
\* ran, with setMaximumTime(can->totalSeconds())) or a live stream
Constructed(streams, totals, widths) ==
  /\ live \in streams
  /\ isPaused \in BOOLEAN
  /\ currentSec = Zero
  /\ totalSeconds \in totals
  /\ play_btn = updatePlayBtnState(isPaused)
  /\ skip_enabled = TRUE
  /\ maximum_time = IF live THEN Zero ELSE totalSeconds
  /\ end_time_label = IF live THEN NoText ELSE FormatSeconds(totalSeconds)
  /\ time_label = FormatSeconds(Zero)
  /\ slider \in IF live \/ ~FLess(Zero, totalSeconds) THEN {NewSlider}
                ELSE setTimeRange(NewSlider, Zero, totalSeconds)
  /\ width \in widths
  /\ alerts = << >>
  /\ thumbnails = << >>
  /\ alert_label = NewInfoLabel
  /\ thumbnail_label = NewInfoLabel
  /\ pending = << >>
  /\ aborted = (~live /\ ~FLess(Zero, totalSeconds))
  /\ timeline = << >>
  /\ painted = NotPainted
  /\ last = Handled("VideoWidget", << >>, 0, NoValue,
                    IF live THEN << >> ELSE << <<Zero, totalSeconds>> >>)

Init == Constructed(BOOLEAN, TotalSecondsInputs, WidthInputs)

\* ------------------------------------------------------------------ play / pause / speed

\* AbstractStream::pause(b) as the widget relies on it: the stream takes the state and
\* emits paused() or resume(), which runs VideoWidget::updatePlayBtnState
streamPause(b) ==
  /\ isPaused' = b
  /\ play_btn' = updatePlayBtnState(isPaused')

\* play_btn clicked: can->pause(!can->isPaused())
PlayBtnClicked ==
  /\ ~aborted
  /\ streamPause(~isPaused)
  /\ last' = Handled("play_btn.clicked", << PauseCall(~isPaused) >>, 0, NoValue, << >>)
  /\ UNCHANGED <<live, currentSec, totalSeconds, skip_enabled, maximum_time, end_time_label,
                 time_label, slider, width, alerts, thumbnails, alert_label,
                 thumbnail_label, pending, aborted, timeline, painted>>

\* cam_widget clicked (replay stream): can->pause(!can->isPaused())
CameraClicked ==
  /\ ~aborted /\ ~live
  /\ streamPause(~isPaused)
  /\ last' = Handled("cam_widget.clicked", << PauseCall(~isPaused) >>, 0, NoValue, << >>)
  /\ UNCHANGED <<live, currentSec, totalSeconds, skip_enabled, maximum_time, end_time_label,
                 time_label, slider, width, alerts, thumbnails, alert_label,
                 thumbnail_label, pending, aborted, timeline, painted>>

\* the stream is paused or resumed by another part of the program
StreamPaused(b) ==
  /\ ~aborted
  /\ streamPause(b)
  /\ last' = Handled("can.paused/resume", << >>, 0, NoValue, << >>)
  /\ UNCHANGED <<live, currentSec, totalSeconds, skip_enabled, maximum_time, end_time_label,
                 time_label, slider, width, alerts, thumbnails, alert_label,
                 thumbnail_label, pending, aborted, timeline, painted>>

\* Settings::changed: updatePlayBtnState()
SettingsChanged ==
  /\ ~aborted
  /\ play_btn' = updatePlayBtnState(isPaused)
  /\ last' = Handled("settings.changed", << >>, 0, NoValue, << >>)
  /\ UNCHANGED <<live, isPaused, currentSec, totalSeconds, skip_enabled, maximum_time,
                 end_time_label, time_label, slider, width, alerts, thumbnails,
                 alert_label, thumbnail_label, pending, aborted, timeline, painted>>

\* the speeds of the four speed buttons, in tenths
Speeds == {1, 5, 10, 20}

\* a speed button clicked: can->setSpeed(speed)
SpeedClicked(speed) ==
  /\ ~aborted
  /\ last' = Handled("speed_btn.clicked", << Call("setSpeed", speed) >>, 0, NoValue, << >>)
  /\ UNCHANGED <<live, isPaused, currentSec, totalSeconds, play_btn, skip_enabled,
                 maximum_time, end_time_label, time_label, slider, width, alerts,
                 thumbnails, alert_label, thumbnail_label, pending, aborted, timeline,
                 painted>>

\* skip_to_end_btn clicked (live stream): the 1.0x button is clicked, then
\* can->pause(false) and can->seekTo(can->totalSeconds() + 1)
SkipToEndClicked ==
  /\ ~aborted /\ live /\ skip_enabled
  /\ streamPause(FALSE)
  /\ last' = Handled("skip_to_end_btn.clicked",
                     << Call("setSpeed", 10), PauseCall(FALSE),
                        Call("seekTo", FAdd(totalSeconds, Secs(1))) >>, 0, NoValue, << >>)
  /\ UNCHANGED <<live, currentSec, totalSeconds, skip_enabled, maximum_time, end_time_label,
                 time_label, slider, width, alerts, thumbnails, alert_label,
                 thumbnail_label, pending, aborted, timeline, painted>>

\* ------------------------------------------------------------------ time range

\* VideoWidget::setMaximumTime(sec); Slider::setTimeRange asserts min < max
setMaximumTime(ev, sec) ==
  /\ maximum_time' = sec
  /\ end_time_label' = FormatSeconds(sec)
  /\ IF FLess(Zero, sec)
       THEN /\ slider' \in setTimeRange(slider, Zero, sec)
            /\ time_label' = timeLabelAfter(slider'.value # slider.value, slider')
            /\ aborted' = FALSE
       ELSE /\ aborted' = TRUE
            /\ UNCHANGED <<slider, time_label>>
  /\ last' = Handled(ev, << >>, 0, NoValue, << <<Zero, sec>> >>)

\* a queued Slider::updateMaximumTime(sec) is delivered to VideoWidget::setMaximumTime
MaximumTimeUpdated ==
  /\ ~aborted /\ ~live
  /\ pending # << >>
  /\ setMaximumTime("slider.updateMaximumTime", Head(pending))
  /\ pending' = Tail(pending)
  /\ UNCHANGED <<live, isPaused, currentSec, totalSeconds, play_btn, skip_enabled, width,
                 alerts, thumbnails, alert_label, thumbnail_label, timeline, painted>>

\* VideoWidget::updateTimeRange(min, max, is_zoomed)
UpdateTimeRange(min, max, is_zoomed) ==
  /\ ~aborted
  /\ IF live
       THEN /\ skip_enabled' = ~is_zoomed
            /\ last' = Handled("updateTimeRange", << >>, 0, NoValue, << >>)
            /\ UNCHANGED <<end_time_label, slider, time_label, aborted>>
       ELSE LET lo == IF is_zoomed THEN min ELSE Zero
                hi == IF is_zoomed THEN max ELSE maximum_time
            IN  /\ end_time_label' = FormatSeconds(hi)
                /\ IF FLess(lo, hi)
                     THEN /\ slider' \in setTimeRange(slider, lo, hi)
                          /\ time_label' = timeLabelAfter(slider'.value # slider.value, slider')
                          /\ aborted' = FALSE
                     ELSE /\ aborted' = TRUE
                          /\ UNCHANGED <<slider, time_label>>
                /\ last' = Handled("updateTimeRange", << >>, 0, NoValue, << <<lo, hi>> >>)
                /\ UNCHANGED skip_enabled
  /\ UNCHANGED <<live, isPaused, currentSec, totalSeconds, play_btn, maximum_time, width,
                 alerts, thumbnails, alert_label, thumbnail_label, pending, timeline,
                 painted>>

\* ------------------------------------------------------------------ stream updates

\* updateState without the isSliderDown test
sliderAfterUpdateAlways(s, sec) == setCurrentSecond(s, sec)

\* `if (!slider->isSliderDown()) slider->setCurrentSecond(can->currentSec());`
sliderAfterUpdate(s, sec) == IF ~s.down THEN setCurrentSecond(s, sec) ELSE {s}

\* can emits updated() with can->currentSec() = t: VideoWidget::updateState
UpdateState(t) ==
  /\ ~aborted /\ ~live
  /\ currentSec' = t
  /\ slider' \in sliderAfterUpdate(slider, currentSec')
  /\ time_label' = timeLabelAfter(slider'.value # slider.value, slider')
  /\ \E alert \in alertInfoOf(alerts, currentSec') :
       alert_label' = showAlert(alert_label, alert)
  /\ last' = Handled("can.updated", << >>, 0, NoValue, << >>)
  /\ UNCHANGED <<live, isPaused, totalSeconds, play_btn, skip_enabled, maximum_time,
                 end_time_label, width, alerts, thumbnails, thumbnail_label, pending,
                 aborted, timeline, painted>>

\* can emits qLogLoaded(segnum, qlog): Slider::parseQLog
ParseQLog(segnum, qlog) ==
  /\ ~aborted /\ ~live
  /\ Len(pending) + Len(maximumTimeSignals(segnum, qlog)) <= MaxPending
  /\ pending' = pending \o maximumTimeSignals(segnum, qlog)
  /\ alerts' \in alertsAfter(alerts, qlog)
  /\ thumbnails' \in thumbnailsAfter(thumbnails, qlog)
  /\ last' = Handled("can.qLogLoaded", << >>, 0, NoValue, << >>)
  /\ UNCHANGED <<live, isPaused, currentSec, totalSeconds, play_btn, skip_enabled,
                 maximum_time, end_time_label, time_label, slider, width, alert_label,
                 thumbnail_label, aborted, timeline, painted>>

\* ------------------------------------------------------------------ slider mouse events

\* QSlider::mousePressEvent (called first by Slider::mousePressEvent): ignored when the
\* range is empty or the button is not the left one; a left press on the handle grabs
\* it (setSliderDown(true)), one beside it moves the value by a page step
qSliderPress(s, button, grab, step) ==
  IF s.maximum = s.minimum \/ button # "Left" THEN s
  ELSE IF grab THEN [s EXCEPT !.down = TRUE]
  ELSE QSetValue(s, s.value + step)

\* Slider::mousePressEvent at e->x() = x with e->button() = button
MousePress(x, button, grab, step) ==
  /\ ~aborted /\ ~live
  /\ ~slider.down
  /\ LET s1 == qSliderPress(slider, button, grab, step)
     IN  IF button = "Left" /\ ~s1.down
           THEN \E value \in clickValues(s1, x, width) :
                  /\ slider' = QSetValue(s1, value)
                  /\ time_label' = timeLabelAfter(s1.value # slider.value
                                                    \/ slider'.value # s1.value, slider')
                  /\ last' = HandledMouse("slider.mousePress",
                                          << Call("seekTo", currentSecond(slider')) >>, 1,
                                          value, x, NoSeconds)
           ELSE /\ slider' = s1
                /\ time_label' = timeLabelAfter(s1.value # slider.value, slider')
                /\ last' = HandledMouse("slider.mousePress", << >>, 0, NoValue, x, NoSeconds)
  /\ UNCHANGED <<live, isPaused, currentSec, totalSeconds, play_btn, skip_enabled,
                 maximum_time, end_time_label, width, alerts, thumbnails, alert_label,
                 thumbnail_label, pending, aborted, timeline, painted>>

\* QSlider::mouseMoveEvent (called last by Slider::mouseMoveEvent): a pressed handle
\* follows the mouse, the value tracking it
qSliderMove(s, pos, w) ==
  IF s.down THEN QSetValue(s, s.minimum + TruncDiv((s.maximum - s.minimum) * pos, w))
  ELSE s

\* Slider::mouseMoveEvent at e->pos().x() = x
MouseMove(x) ==
  /\ ~aborted /\ ~live
  /\ LET pos == Clamp(x, 0, width)
         seconds == hoverSeconds(slider, pos, width)
     IN  /\ \E thumb \in thumbnailOf(thumbnails, seconds) :
                IF thumb # NullPixmap
                  THEN \E alert \in alertInfoOf(alerts, seconds) :
                         thumbnail_label' = showPixmap(thumbnail_label,
                                                       FormatSeconds(seconds), thumb, alert)
                  ELSE thumbnail_label' = hideLabel(thumbnail_label)
         /\ slider' = qSliderMove(slider, pos, width)
         /\ time_label' = timeLabelAfter(slider'.value # slider.value, slider')
         /\ last' = HandledMouse("slider.mouseMove", << >>, 0, NoValue, x, seconds)
  /\ UNCHANGED <<live, isPaused, currentSec, totalSeconds, play_btn, skip_enabled,
                 maximum_time, end_time_label, width, alerts, thumbnails, alert_label,
                 pending, aborted, timeline, painted>>

\* QSlider::mouseReleaseEvent (not overridden): a pressed handle is let go,
\* setSliderDown(false) emits sliderReleased, whose slot calls can->seekTo
MouseRelease ==
  /\ ~aborted /\ ~live
  /\ slider' = [slider EXCEPT !.down = FALSE]
  /\ last' = IF slider.down
               THEN Handled("slider.mouseRelease",
                            << Call("seekTo", currentSecond(slider')) >>, 1, NoValue, << >>)
               ELSE Handled("slider.mouseRelease", << >>, 0, NoValue, << >>)
  /\ UNCHANGED <<live, isPaused, currentSec, totalSeconds, play_btn, skip_enabled,
                 maximum_time, end_time_label, time_label, width, alerts, thumbnails,
                 alert_label, thumbnail_label, pending, aborted, timeline, painted>>

\* the event types Slider::event hides the preview for
HidingEvents == {"WindowActivate", "WindowDeactivate", "FocusIn", "FocusOut", "Leave"}

\* event types Slider::event receives besides the mouse events above
EventTypes == HidingEvents \cup {"Enter"}

\* Slider::event(event) for an event of the given type
SliderEvent(type) ==
  /\ ~aborted /\ ~live
  /\ thumbnail_label' = IF type \in HidingEvents THEN hideLabel(thumbnail_label)
                        ELSE thumbnail_label
  /\ last' = Handled(type, << >>, 0, NoValue, << >>)
  /\ UNCHANGED <<live, isPaused, currentSec, totalSeconds, play_btn, skip_enabled,
                 maximum_time, end_time_label, time_label, slider, width, alerts,
                 thumbnails, alert_label, pending, aborted, timeline, painted>>

\* ------------------------------------------------------------------ Slider::paintEvent

\* TimelineType, the index of timeline_colors
TimelineTypes == {"None", "Engaged", "UserFlag", "AlertInfo", "AlertWarning", "AlertCritical"}

\* timelines can->getTimeline() returns: entries (begin, end, type) in seconds
TimelineInputs ==
  { << <<Secs(5), Secs(12), "Engaged">>, <<Secs(8), Dec(95, 10), "AlertWarning">>,
       <<Secs(30), Secs(40), "UserFlag">> >>,
    << <<Zero, Dec(42, 10), "Engaged">>, <<Dec(157, 10), Secs(50), "AlertCritical">> >>,
    << <<Zero, Secs(70), "Engaged">>, <<Secs(2), Secs(3), "AlertInfo">>,
       <<Secs(62), Secs(65), "UserFlag">> >>,
    << <<Secs(12), Secs(18), "AlertCritical">>, <<Secs(10), Secs(20), "Engaged">> >>,
    << <<Dec(4199, 1000), Dec(41999, 10000), "UserFlag">>,
       <<Dec(65, 10), Dec(995, 100), "AlertInfo">>,
       <<Dec(157001, 10000), Secs(16), "AlertInfo">> >> }

\* `if (begin > max || end < min) continue;`
skipsEntry(min, max, begin, end) == FLess(max, begin) \/ FLess(end, min)

\* r.setLeft(...) / r.setRight(...): the ints ((t - min) / (max - min)) * width()
\* converts to
spanEdge(min, max, t, w) ==
  DoubleToInt(FMul(FDiv(FSub(t, min), FSub(max, min)), FromInt(w)))

\* the rectangle's left and right columns for an entry that is not skipped
entrySpan(min, max, begin, end, w) ==
  { [left |-> l, right |-> r] :
      l \in spanEdge(min, max, FMax(min, begin), w),
      r \in spanEdge(min, max, FMin(max, end), w) }

\* p.fillRect(r, color): the columns left..right of the bar take the colour
fillRect(bar, span, type) ==
  [x \in DOMAIN bar |-> IF span.left <= x /\ x <= span.right THEN type ELSE bar[x]]

\* the loop of Slider::paintEvent over the timeline entries from index i on: the bars
\* it can end with, each with the spans filled in order
RECURSIVE paintEntries(_, _, _, _, _, _)
paintEntries(p, min, max, w, tl, i) ==
  IF i > Len(tl) THEN {p}
  ELSE IF skipsEntry(min, max, tl[i][1], tl[i][2])
    THEN paintEntries(p, min, max, w, tl, i + 1)
  ELSE UNION { paintEntries([bar |-> fillRect(p.bar, span, tl[i][3]),
                             spans |-> Append(p.spans, span)], min, max, w, tl, i + 1) :
                 span \in entrySpan(min, max, tl[i][1], tl[i][2], w) }

\* Slider::paintEvent: the bar (columns 0 .. width()-1) filled with the None colour,
\* then each entry's span with its type's colour
paintBar(s, w, tl) ==
  paintEntries([bar |-> [x \in 0 .. w - 1 |-> "None"], spans |-> << >>],
               FDiv(FromInt(s.minimum), factor), FDiv(FromInt(s.maximum), factor),
               w, tl, 1)

\* the slider receives a paint event
PaintEvent ==
  /\ ~aborted /\ ~live
  /\ painted' \in paintBar(slider, width, timeline)
  /\ last' = Handled("slider.paint", << >>, 0, NoValue, << >>)
  /\ UNCHANGED <<live, isPaused, currentSec, totalSeconds, play_btn, skip_enabled,
                 maximum_time, end_time_label, time_label, slider, width, alerts,
                 thumbnails, alert_label, thumbnail_label, pending, aborted, timeline>>

\* the stream's timeline changes (segments are loaded)
TimelineChanged(tl) ==
  /\ ~aborted /\ ~live
  /\ timeline' = tl
  /\ last' = Handled("can.timeline", << >>, 0, NoValue, << >>)
  /\ UNCHANGED <<live, isPaused, currentSec, totalSeconds, play_btn, skip_enabled,
                 maximum_time, end_time_label, time_label, slider, width, alerts,
                 thumbnails, alert_label, thumbnail_label, pending, aborted, painted>>

\* ------------------------------------------------------------------ specification

\* e->x() of a press inside the widget
PressXInputs == {17, 200}

\* e->pos().x() of moves while the handle is dragged
DragXInputs == {100, 230}

\* the qlog loaded while the user seeks
SeekParseInputs == { <<0, QLogA>> }

\* widths of the slider under the hovering mouse
HoverWidthInputs == {7, 200}

\* play / pause / speed controls, the skip button and the time range
NextControls ==
  \/ PlayBtnClicked
  \/ CameraClicked
  \/ \E b \in BOOLEAN : StreamPaused(b)
  \/ SettingsChanged
  \/ \E speed \in Speeds : SpeedClicked(speed)
  \/ SkipToEndClicked
  \/ \E r \in TimeRangeInputs : UpdateTimeRange(r[1], r[2], r[3])
  \/ \E p \in ParseInputs : ParseQLog(p[1], p[2])
  \/ MaximumTimeUpdated

\* the alert overlay: logs are loaded while the stream plays
NextAlerts ==
  \/ \E t \in CurrentSecInputs : UpdateState(t)
  \/ \E p \in ParseInputs : ParseQLog(p[1], p[2])
  \/ MaximumTimeUpdated
  \/ \E r \in TimeRangeInputs : UpdateTimeRange(r[1], r[2], r[3])

\* playback position and seeking: the stream plays while the user clicks and drags
NextPlayback ==
  \/ \E t \in CurrentSecInputs : UpdateState(t)
  \/ \E p \in SeekParseInputs : ParseQLog(p[1], p[2])
  \/ \E r \in TimeRangeInputs : UpdateTimeRange(r[1], r[2], r[3])
  \/ \E x \in PressXInputs, button \in {"Left", "Right"}, grab \in BOOLEAN,
        step \in {PageStep, -PageStep} : MousePress(x, button, grab, step)
  \/ \E x \in DragXInputs : MouseMove(x)
  \/ MouseRelease

\* the hover preview
NextHover ==
  \/ \E x \in XInputs : MouseMove(x)
  \/ \E type \in EventTypes : SliderEvent(type)
  \/ \E p \in ParseInputs : ParseQLog(p[1], p[2])
  \/ \E r \in TimeRangeInputs : UpdateTimeRange(r[1], r[2], r[3])

\* widths of the slider when its bar is painted
PaintWidthInputs == {8, 12}

\* painting the timeline bar
NextPaint ==
  \/ PaintEvent
  \/ \E tl \in TimelineInputs : TimelineChanged(tl)
  \/ \E r \in TimeRangeInputs : UpdateTimeRange(r[1], r[2], r[3])

\* route lengths and slider widths for clicks on the bar
ClickTotalSecondsInputs == {Secs(60), Secs(1200), Secs(2100)}

ClickWidthInputs == {640, 1000, 1920}

ClickXInputs == {0, 1, 320, 639, 640, 900, 1000, 1800, 1919, 1920}

\* clicks on the slider
NextClick ==
  \/ \E x \in {c \in ClickXInputs : c <= width}, button \in {"Left", "Right"},
        grab \in BOOLEAN, step \in {PageStep, -PageStep} :
        MousePress(x, button, grab, step)
  \/ MouseRelease

Next == NextControls \/ NextAlerts \/ NextPlayback \/ NextHover \/ NextPaint

Spec == Init /\ [][Next]_vars

SpecControls == Init /\ [][NextControls]_vars

SpecAlerts == Init /\ [][NextAlerts]_vars

SpecPlayback == Init /\ [][NextPlayback]_vars

SpecHover == Constructed({FALSE}, TotalSecondsInputs, HoverWidthInputs) /\ [][NextHover]_vars

SpecPaint == Constructed({FALSE}, TotalSecondsInputs, PaintWidthInputs) /\ [][NextPaint]_vars

SpecClick == Constructed({FALSE}, ClickTotalSecondsInputs, ClickWidthInputs)
             /\ [][NextClick]_vars

\* ------------------------------------------------------------------ claims

\* the uint64_t m the code's (seconds + routeStartTime) * 1e9 has as its value
MonoTimeOf(seconds) == CHOOSE m \in MonoTime(seconds) : TRUE

\* the stored alert a lookup at time `seconds` is to give: the one with the smallest
\* mono_time not before m when that is at most 10^8 ns after m, the empty alert otherwise
NearestAlert(seconds) ==
  LET m == MonoTimeOf(seconds)
      from == {k \in DOMAIN alerts : BCmp(k, m) >= 0}
      nearest == CHOOSE k \in from : \A j \in from : BCmp(k, j) <= 0
  IN  IF from # {} /\ BCmp(BSub(nearest, m), BFromInt(100000000)) <= 0
        THEN alerts[nearest]
        ELSE EmptyAlert

\* C1: for a replay stream, after every handling of `updated` by updateState the alert
\* overlay holds alertInfo(can->currentSec()) with its pixmap cleared and is visible
\* exactly when that alert's text1 is non-empty, so it shows no alert once playback is
\* where alertInfo gives the empty alert.
C1_OverlayShowsCurrentAlert ==
  (~live /\ last.ev = "can.updated") =>
    /\ alertInfoOf(alerts, currentSec) = {alert_label.alert_info}
    /\ alert_label.pixmap = NullPixmap
    /\ alert_label.visible = (alert_label.alert_info.text1 # "")
    /\ (EmptyAlert \in alertInfoOf(alerts, currentSec) => ~alert_label.visible)

\* an update has put a stored alert on the overlay
C1_Witness ==
  /\ ~live /\ last.ev = "can.updated"
  /\ alert_label.visible
  /\ alert_label.alert_info.text1 = "Brake!"
  /\ currentSec = Dec(49, 10)

\* the calls of can->seekTo among the calls a handler made
SeekCalls(calls) == SelectSeq(calls, LAMBDA c : c.fn = "seekTo")

\* C2: for a replay stream, every emission of sliderReleased (the end of a handle drag,
\* or a left click that does not grab the handle) makes exactly one can->seekTo(s) with
\* s the slider's value divided by 1000, and a handler that emits none (a move of the
\* dragged handle, setCurrentSecond on a stream update, ...) makes no seekTo call.
C2_SeekOnlyOnSliderReleased ==
  ~live =>
    /\ last.released \in {0, 1}
    /\ last.released = 1 =>
         SeekCalls(last.calls) = << Call("seekTo", FDiv(FromInt(slider.value), FromInt(1000))) >>
    /\ last.released = 0 => SeekCalls(last.calls) = << >>

\* a left click beside the handle has sought to a position inside the route
C2_Witness ==
  /\ ~live /\ last.ev = "slider.mousePress" /\ last.released = 1
  /\ slider.value = 5100
  /\ last.calls = << Call("seekTo", Dec(51, 10)) >>

\* C4: a click on the play button or on the camera view calls
\* can->pause(!can->isPaused()), which toggles the stream's paused state, and after any
\* clicks and paused / resume signals the play button shows the "play" icon and the
\* tool tip "Play" exactly when the stream is paused, "pause" and "Pause" when it is not.
C4_PlayButtonShowsPausedState ==
  /\ [](/\ play_btn.icon = (IF isPaused THEN "play" ELSE "pause")
        /\ play_btn.toolTip = (IF isPaused THEN "Play" ELSE "Pause"))
  /\ [][last'.ev \in {"play_btn.clicked", "cam_widget.clicked"} =>
          /\ last'.calls = << PauseCall(~isPaused) >>
          /\ isPaused' = ~isPaused]_vars

\* a click on the play button has paused a running stream
C4_Witness ==
  /\ last.ev = "play_btn.clicked" /\ last.calls = << PauseCall(TRUE) >>
  /\ isPaused /\ play_btn.icon = "play"

\* C6 as claimed: while the handle is held down an update leaves the slider value
\* unchanged and still updates the overlay for can->currentSec(); when it is not held
\* down the update sets the slider value to currentSec * 1000.
C6_UpdateSetsValueToCurrentSec ==
  [][last'.ev = "can.updated" =>
       /\ alert_label'.alert_info = NearestAlert(currentSec')
       /\ slider.down => slider' = slider
       /\ ~slider.down => slider'.value \in SecTimesFactor(currentSec')]_vars

\* C6, amended: while the handle is held down an update leaves the slider unchanged and
\* still updates the overlay for can->currentSec(); when it is not held down the update
\* sets the slider value to the double product currentSec * 1000.0 truncated to an int
\* and bounded into the slider's current range [minimum, maximum], and changes nothing
\* else of the slider.
C6_UpdateSetsValueWithinRange ==
  [][last'.ev = "can.updated" =>
       /\ alert_label'.alert_info = NearestAlert(currentSec')
       /\ slider.down => slider' = slider
       /\ ~slider.down =>
            \E v \in DoubleToInt(FMul(currentSec', FromInt(1000))) :
              slider' = [slider EXCEPT !.value = Clamp(v, slider.minimum, slider.maximum)]]_vars

\* an update arrived during a drag: the handle kept its place, the overlay moved on
C6_Witness ==
  /\ last.ev = "can.updated" /\ slider.down
  /\ currentSec = Dec(49, 10) /\ slider.value # 4900
  /\ alert_label.visible

\* seconds at which the alert lookup is probed
ProbeSecs == {Zero, Dec(48, 10), Dec(4899999, 1000000), Dec(49, 10), Dec(4900001, 1000000),
              Secs(5), Dec(5000001, 1000000), Dec(804, 100), Dec(8041, 1000),
              Dec(299, 10), Secs(30), Secs(31)}

\* C7: alertInfo(t), with m = (t + routeStartTime) * 1e9, returns the stored alert with
\* the smallest mono_time >= m exactly when that alert lies at most 1e8 ns after m, and
\* the empty AlertInfo (empty text1) in every other case; every stored alert has a
\* non-empty text1.
C7_AlertInfoWithinWindow ==
  /\ \A t \in ProbeSecs :
       /\ alertInfoOf(alerts, t) = {NearestAlert(t)}
       /\ (NearestAlert(t).text1 # "") =
            (\E k \in DOMAIN alerts :
               /\ BCmp(k, MonoTimeOf(t)) >= 0
               /\ \A j \in DOMAIN alerts : BCmp(j, MonoTimeOf(t)) >= 0 => BCmp(k, j) <= 0
               /\ BCmp(BSub(k, MonoTimeOf(t)), BFromInt(100000000)) <= 0)
  /\ \A k \in DOMAIN alerts : alerts[k].text1 # ""
  /\ EmptyAlert.text1 = ""

\* alerts are stored; the lookup exactly 10^8 ns before one finds it, the lookup whose
\* m falls 1 ns further from the next alert, the lookup 200 ms before one and the
\* lookup just after one find none
C7_Witness ==
  /\ DOMAIN alerts = {Ns(105, 0), Ns(108, 140000000), Ns(130, 0)}
  /\ MonoTimeOf(Dec(804, 100)) = Ns(108, 39999999)
  /\ NearestAlert(Dec(49, 10)).text1 = "Brake!"
  /\ NearestAlert(Dec(804, 100)) = EmptyAlert
  /\ NearestAlert(Dec(48, 10)) = EmptyAlert
  /\ NearestAlert(Dec(5000001, 1000000)) = EmptyAlert

\* the stored thumbnail timestamps not before the uint64_t m
ThumbnailsFrom(m) == {k \in DOMAIN thumbnails : BCmp(k, m) >= 0}

\* C3: on a mouse move at hovered time t the preview is shown exactly when some stored
\* thumbnail has a timestamp >= (t + routeStartTime) * 1e9, and then shows the one with
\* the smallest such timestamp together with alertInfo(t); otherwise it is hidden. After
\* a WindowActivate, WindowDeactivate, FocusIn, FocusOut or Leave event the preview is
\* hidden, and it stays hidden until a mouse move that finds a thumbnail.
C3_PreviewFollowsHover ==
  /\ []((~live /\ last.ev = "slider.mouseMove") =>
          LET t == last.seconds
              from == ThumbnailsFrom(MonoTimeOf(t))
          IN  /\ thumbnail_label.visible = (from # {})
              /\ from # {} =>
                   /\ \E k \in from :
                        /\ \A j \in from : BCmp(k, j) <= 0
                        /\ thumbnail_label.pixmap = thumbnails[k]
                   /\ thumbnail_label.alert_info = NearestAlert(t))
  /\ [](last.ev \in HidingEvents => ~thumbnail_label.visible)
  /\ [][(~thumbnail_label.visible /\ thumbnail_label'.visible) =>
          /\ last'.ev = "slider.mouseMove"
          /\ \E k \in DOMAIN thumbnails' : BCmp(k, MonoTimeOf(last'.seconds)) >= 0]_vars

\* the mouse hovers at 60000 / 7 ms, whose m is exactly a thumbnail's timestamp, and
\* the preview shows that thumbnail
C3_Witness ==
  /\ last.ev = "slider.mouseMove" /\ width = 7 /\ last.x = 1
  /\ slider.minimum = 0 /\ slider.maximum = 60000
  /\ MonoTimeOf(last.seconds) = Ns(108, 571428571)
  /\ DOMAIN thumbnails = {Ns(105, 100000000), Ns(108, 571428571)}
  /\ thumbnail_label.visible /\ thumbnail_label.pixmap = "pmB"

\* the indices of the timeline entries paintEvent does not skip for the visible range
\* [min, max], in the stream's order
VisibleEntries(min, max) ==
  SelectSeq([i \in 1 .. Len(timeline) |-> i],
            LAMBDA i : ~(FLess(max, timeline[i][1]) \/ FLess(timeline[i][2], min)))

\* the columns (t - min) / (max - min) * width is as an int, t already bounded into
\* [min, max]
ColumnOf(min, max, t) ==
  DoubleToInt(FMul(FDiv(FSub(t, min), FSub(max, min)), FromInt(width)))

\* C5 as claimed: paintEvent fills the whole bar with the None colour and then, for each
\* timeline entry in order, skips it when begin > max or end < min of the visible range
\* [min, max] = [minimum()/1000, maximum()/1000] and otherwise fills the span from
\* (max(min, begin) - min) / (max - min) * width to
\* (min(max, end) - min) / (max - min) * width with its type's colour: every painted
\* span lies within [0, width], columns in no span keep the None colour, and where
\* spans overlap the later entry's colour shows.
C5_TimelineBarPainted ==
  last.ev = "slider.paint" =>
    LET min == FDiv(FromInt(slider.minimum), FromInt(1000))
        max == FDiv(FromInt(slider.maximum), FromInt(1000))
        shown == VisibleEntries(min, max)
        covers(n, x) == painted.spans[n].left <= x /\ x <= painted.spans[n].right
    IN  /\ DOMAIN painted.bar = 0 .. width - 1
        /\ Len(painted.spans) = Len(shown)
        /\ \A n \in DOMAIN painted.spans :
             LET begin == timeline[shown[n]][1]
                 end == timeline[shown[n]][2]
             IN  /\ painted.spans[n].left
                      \in ColumnOf(min, max, IF FLess(min, begin) THEN begin ELSE min)
                 /\ painted.spans[n].right
                      \in ColumnOf(min, max, IF FLess(end, max) THEN end ELSE max)
                 /\ 0 <= painted.spans[n].left /\ painted.spans[n].left <= width
                 /\ 0 <= painted.spans[n].right /\ painted.spans[n].right <= width
        /\ \A x \in 0 .. width - 1 :
             IF \E n \in DOMAIN painted.spans : covers(n, x)
               THEN \E n \in DOMAIN painted.spans :
                      /\ covers(n, x)
                      /\ \A k \in DOMAIN painted.spans : covers(k, x) => k <= n
                      /\ painted.bar[x] = timeline[shown[n]][3]
               ELSE painted.bar[x] = "None"

\* C8 as claimed: for a replay stream updateTimeRange(min, max, is_zoomed) sets the
\* slider range to [min * 1000, max * 1000] when is_zoomed and to
\* [0, maximum_time * 1000] when not, sets the end-time label to the upper bound used
\* and leaves maximum_time unchanged; for a live stream it changes only the enabled
\* state of the skip-to-end button (enabled iff not zoomed).
C8_UpdateTimeRangeSetsRange ==
  [][\A r \in TimeRangeInputs :
       UpdateTimeRange(r[1], r[2], r[3]) =>
         IF live
           THEN /\ skip_enabled' = ~r[3]
                /\ UNCHANGED <<slider, end_time_label, time_label, maximum_time>>
           ELSE LET lo == IF r[3] THEN r[1] ELSE Zero
                    hi == IF r[3] THEN r[2] ELSE maximum_time
                IN  /\ slider'.minimum \in DoubleToInt(FMul(lo, FromInt(1000)))
                    /\ slider'.maximum \in DoubleToInt(FMul(hi, FromInt(1000)))
                    /\ end_time_label' = FormatSeconds(hi)
                    /\ maximum_time' = maximum_time]_vars

\* C9 as claimed: every call of Slider::setTimeRange(min, max) satisfies its assertion
\* min < max: the one at construction, those of setMaximumTime on updateMaximumTime,
\* and those of updateTimeRange, zoomed or not.
C9_SetTimeRangeAssertionHolds ==
  /\ ~aborted
  /\ \A n \in DOMAIN last.ranges : FLess(last.ranges[n][1], last.ranges[n][2])

\* C10 as claimed: for a left click at x in [0, width] that does not grab the handle,
\* the value mousePressEvent computes lies in [minimum, maximum] and is the exact
\* floored interpolation of x between them; the slider is set to it before
\* sliderReleased is emitted, so the seek goes to the clicked position.
C10_ClickValueIsInterpolation ==
  (last.ev = "slider.mousePress" /\ last.released = 1) =>
    /\ slider.minimum <= last.computed /\ last.computed <= slider.maximum
    /\ last.computed =
         slider.minimum + ExactMulDiv(slider.maximum - slider.minimum, last.x, width)
    /\ slider.value = last.computed
    /\ last.calls = << Call("seekTo", FDiv(FromInt(last.computed), FromInt(1000))) >>

==========================================================================
